---------------------------- MODULE Spec2Model ----------------------------
(***************************************************************************)
(* Model of docs/compatibility/versioning.py of BO4E-python: the Version   *)
(* value type (parsing, formatting, ordering, bump predicates) and the     *)
(* release check compare_work_tree_with_latest_version.                    *)
(*                                                                         *)
(* Texts (Python str) are sequences of one-character strings, so that      *)
(* parsing and formatting are computed, character by character.            *)
(***************************************************************************)
EXTENDS Integers, Sequences, FiniteSets, TLC

VARIABLES
    \* ---- compare_work_tree_with_latest_version (one invocation) ----
    pc,                    \* position in the function / the CLI wrapper
    gh_version,            \* argument: the declared version text
    major_bump_allowed,    \* argument
    gitTags,               \* git: tags merged into the declared tag, newest first
    latestTag,             \* release registry: tag name of the release marked latest
    branches,              \* git: branches containing the commit of the latest tag
    schemaChanges,         \* diff oracle: number of changes between the two versions
    cur_version,           \* local
    latest_version,        \* local
    is_cur_version_latest, \* local
    version_behind,        \* local
    functional_changes,    \* local
    outcome,               \* "none", "returned", or the error raised
    exit_status,           \* exit status of the CLI, None while it runs
    \* ---- Version algebra: inputs and results of the comparisons ----
    ord,
    \* ---- Version.from_string / tag_name: inputs and results ----
    prs,
    \* ---- get_last_n_tags: one generator and what its consumer has taken ----
    gen

vars == <<pc, gh_version, major_bump_allowed, gitTags, latestTag, branches,
          schemaChanges, cur_version, latest_version, is_cur_version_latest,
          version_behind, functional_changes, outcome, exit_status, ord, prs,
          gen>>

checkVars == <<pc, gh_version, major_bump_allowed, gitTags, latestTag, branches,
               schemaChanges, cur_version, latest_version, is_cur_version_latest,
               version_behind, functional_changes, outcome, exit_status>>

---------------------------------------------------------------------------
(* Bounds of the model. *)

\* functional and technical numbers range over 0..MaxNumber
MaxNumber == 1
\* candidate numbers range over 0..MaxCandidate
MaxCandidate == 2
\* number texts handed to the parser have 1..MaxDigits digits
MaxDigits == 2

---------------------------------------------------------------------------
(* Python str and int. *)

Digits == {"0", "1", "2", "3", "4", "5", "6", "7", "8", "9"}

DigitVal(c) ==
    CASE c = "0" -> 0 [] c = "1" -> 1 [] c = "2" -> 2 [] c = "3" -> 3
      [] c = "4" -> 4 [] c = "5" -> 5 [] c = "6" -> 6 [] c = "7" -> 7
      [] c = "8" -> 8 [] c = "9" -> 9

DigitChar(d) ==
    CASE d = 0 -> "0" [] d = 1 -> "1" [] d = 2 -> "2" [] d = 3 -> "3"
      [] d = 4 -> "4" [] d = 5 -> "5" [] d = 6 -> "6" [] d = 7 -> "7"
      [] d = 8 -> "8" [] d = 9 -> "9"

\* the value of e, computed once, handed to F
Bind(e, F(_)) == CHOOSE r \in {F(x) : x \in {e}} : TRUE

\* int(text) for a text of decimal digits: the value of its first k digits
RECURSIVE ToIntUpTo(_, _)
ToIntUpTo(ds, k) ==
    IF k = 0 THEN 0
    ELSE 10 * ToIntUpTo(ds, k - 1) + DigitVal(ds[k])

ToInt(ds) == ToIntUpTo(ds, Len(ds))

\* f"{n}" for an int n >= 0: decimal, no leading zeros
RECURSIVE ToStr(_)
ToStr(n) ==
    IF n < 10 THEN <<DigitChar(n)>>
    ELSE ToStr(n \div 10) \o <<DigitChar(n % 10)>>

\* \d+
IsNumber(s) == Len(s) >= 1 /\ \A i \in 1..Len(s) : s[i] \in Digits

\* index of the first c in s at or after index from, 0 when there is none
FindFirst(s, c, from) ==
    IF \E i \in from..Len(s) : s[i] = c
    THEN CHOOSE i \in from..Len(s) : s[i] = c /\ \A j \in from..(i - 1) : s[j] # c
    ELSE 0

---------------------------------------------------------------------------
(* class Version *)

\* candidate: Optional[int] = None
None == -1

MajorDigits == 6

NoMatch == [matched |-> FALSE, major |-> <<>>, functional |-> <<>>,
            technical |-> <<>>, candidate |-> <<>>, hasCandidate |-> FALSE]

\* version_pattern.fullmatch(s):
\*   ^v(?P<major>\d{6})\.(?P<functional>\d+)\.(?P<technical>\d+)(?:-rc(?P<candidate>\d+))?$
version_pattern(s) ==
    IF Len(s) < MajorDigits + 2 THEN NoMatch
    ELSE IF s[1] # "v" \/ ~IsNumber(SubSeq(s, 2, MajorDigits + 1))
            \/ s[MajorDigits + 2] # "." THEN NoMatch
    ELSE Bind(FindFirst(s, ".", MajorDigits + 3), LAMBDA p :
         IF p = 0 THEN NoMatch
         ELSE Bind(FindFirst(s, "-", p + 1), LAMBDA q :
              LET major == SubSeq(s, 2, MajorDigits + 1)
                  functional == SubSeq(s, MajorDigits + 3, p - 1)
                  technical == SubSeq(s, p + 1, IF q = 0 THEN Len(s) ELSE q - 1)
                  candidate == SubSeq(s, q + 3, Len(s))
              IN
              IF ~IsNumber(functional) \/ ~IsNumber(technical) THEN NoMatch
              ELSE IF q = 0 THEN
                  [matched |-> TRUE, major |-> major, functional |-> functional,
                   technical |-> technical, candidate |-> <<>>,
                   hasCandidate |-> FALSE]
              ELSE IF Len(s) >= q + 3 /\ SubSeq(s, q, q + 2) = <<"-", "r", "c">>
                      /\ IsNumber(candidate) THEN
                  [matched |-> TRUE, major |-> major, functional |-> functional,
                   technical |-> technical, candidate |-> candidate,
                   hasCandidate |-> TRUE]
              ELSE NoMatch))

NoVersion == [major |-> 0, functional |-> 0, technical |-> 0, candidate |-> None]

is_candidate(self) == self.candidate # None

\* cls(major=int(...), functional=int(...), technical=int(...), candidate=...)
FromMatch(match) ==
    [major |-> ToInt(match.major),
     functional |-> ToInt(match.functional),
     technical |-> ToInt(match.technical),
     candidate |-> IF match.hasCandidate THEN ToInt(match.candidate) ELSE None]

\* Version.from_string without its check of allow_candidate
from_string_CandidateNeverRefused(version, allow_candidate) ==
    Bind(version, LAMBDA text :
    Bind(version_pattern(text), LAMBDA match :
        IF ~match.matched THEN [ok |-> FALSE, val |-> NoVersion]
        ELSE [ok |-> TRUE, val |-> FromMatch(match)]))

\* Version.from_string: [ok |-> FALSE] stands for the ValueError it raises
from_string(version, allow_candidate) ==
    Bind(version, LAMBDA text :
    Bind(version_pattern(text), LAMBDA match :
        IF ~match.matched THEN [ok |-> FALSE, val |-> NoVersion]
        ELSE Bind(FromMatch(match), LAMBDA inst :
             IF ~allow_candidate /\ is_candidate(inst)
             THEN [ok |-> FALSE, val |-> NoVersion]
             ELSE [ok |-> TRUE, val |-> inst])))

\* Version.tag_name
tag_name(self) ==
    <<"v">> \o ToStr(self.major) \o <<".">> \o ToStr(self.functional)
            \o <<".">> \o ToStr(self.technical)
            \o (IF is_candidate(self) THEN <<"-", "r", "c">> \o ToStr(self.candidate)
                ELSE <<>>)

bumped_major(self, other) == self.major > other.major

bumped_functional(self, other) ==
    ~bumped_major(self, other) /\ self.functional > other.functional

bumped_technical(self, other) ==
    ~bumped_functional(self, other) /\ self.technical > other.technical

\* Version.bumped_candidate: what it raises ("none" when it returns) and the
\* value it returns. With both candidates None the comparison
\* self.candidate > other.candidate is a TypeError, unless the `and` stops
\* before it.
bumped_candidate(self, other) ==
    IF is_candidate(self) \/ is_candidate(other)
    THEN [raised |-> "ValueError", value |-> FALSE]
    ELSE IF bumped_technical(self, other)
    THEN [raised |-> "none", value |-> FALSE]
    ELSE [raised |-> "TypeError", value |-> FALSE]

\* Version.__gt__ comparing the candidate numbers with >= instead of >
Version_gt_CandidateOrEqual(self, other) ==
    \/ self.major > other.major
    \/ self.functional > other.functional
    \/ self.technical > other.technical
    \/ (is_candidate(self)
        /\ (~is_candidate(other) \/ self.candidate >= other.candidate))

\* Version.__gt__
Version_gt(self, other) ==
    \/ self.major > other.major
    \/ self.functional > other.functional
    \/ self.technical > other.technical
    \/ (is_candidate(self)
        /\ (~is_candidate(other) \/ self.candidate > other.candidate))

\* Version.__eq__
Version_eq(self, other) ==
    /\ self.major = other.major
    /\ self.functional = other.functional
    /\ self.technical = other.technical
    /\ is_candidate(self) = is_candidate(other)
    /\ (~is_candidate(self) \/ self.candidate = other.candidate)

\* Version.__lt__ as functools.total_ordering derives it from __gt__ and
\* __eq__: (not self > other) and self != other
Version_lt(self, other) == ~Version_gt(self, other) /\ ~Version_eq(self, other)

---------------------------------------------------------------------------
(* The versions and texts the checks range over. *)

Majors == {202401, 202402}

Candidates == {None} \cup (0..MaxCandidate)

Versions == [major : Majors, functional : 0..MaxNumber,
             technical : 0..MaxNumber, candidate : Candidates]

\* values of the variables of the parts a specification does not exercise
IdleCheck ==
    /\ pc = "idle"
    /\ gh_version = <<>>
    /\ major_bump_allowed = TRUE
    /\ gitTags = <<>>
    /\ latestTag = <<>>
    /\ branches = {}
    /\ schemaChanges = 0
    /\ cur_version = NoVersion
    /\ latest_version = NoVersion
    /\ is_cur_version_latest = FALSE
    /\ version_behind = NoVersion
    /\ functional_changes = FALSE
    /\ outcome = "none"
    /\ exit_status = None

IdleOrd == [phase |-> "idle", a |-> NoVersion, b |-> NoVersion, c |-> NoVersion,
            gt_ab |-> FALSE, gt_ba |-> FALSE, eq_ab |-> FALSE, lt_ab |-> FALSE,
            gt_bc |-> FALSE, gt_ac |-> FALSE,
            major |-> FALSE, functional |-> FALSE, technical |-> FALSE,
            candidate |-> [raised |-> "none", value |-> FALSE]]

IdlePrs == [phase |-> "idle", text |-> <<>>, allow |-> TRUE, ok |-> FALSE,
            version |-> NoVersion, tag |-> <<>>, ok2 |-> FALSE,
            version2 |-> NoVersion]

IdleGen == [phase |-> "idle", n |-> 0, on_branch |-> <<>>,
            exclude_candidates |-> TRUE, merged |-> <<>>, reference |-> "none",
            output |-> <<>>, i |-> 1, counter |-> 0, yielded |-> <<>>,
            warned |-> FALSE]

---------------------------------------------------------------------------
(* Comparing two versions a and b: a > b, b > a, a == b, a < b and the    *)
(* three bump predicates of a over b.                                      *)

InitOrder ==
    /\ IdleCheck
    /\ prs = IdlePrs
    /\ gen = IdleGen
    /\ \E a \in Versions, b \in Versions :
          ord = [IdleOrd EXCEPT !.phase = "input", !.a = a, !.b = b, !.c = b]

Compare ==
    /\ ord.phase = "input"
    /\ ord' = [ord EXCEPT
                 !.phase = "compared",
                 !.gt_ab = Version_gt(ord.a, ord.b),
                 !.gt_ba = Version_gt(ord.b, ord.a),
                 !.eq_ab = Version_eq(ord.a, ord.b),
                 !.lt_ab = Version_lt(ord.a, ord.b),
                 !.major = bumped_major(ord.a, ord.b),
                 !.functional = bumped_functional(ord.a, ord.b),
                 !.technical = bumped_technical(ord.a, ord.b)]
    /\ UNCHANGED <<checkVars, prs, gen>>

\* a.bumped_candidate(b)
CompareCandidate ==
    /\ ord.phase = "compared"
    /\ ord' = [ord EXCEPT !.phase = "candidates",
                          !.candidate = bumped_candidate(ord.a, ord.b)]
    /\ UNCHANGED <<checkVars, prs, gen>>

NextOrder == Compare \/ CompareCandidate

SpecOrder == InitOrder /\ [][NextOrder]_vars

(* Comparing a chain of three versions: a > b, b > c and a > c. *)

InitTrans ==
    /\ IdleCheck
    /\ prs = IdlePrs
    /\ gen = IdleGen
    /\ \E a \in Versions, b \in Versions, c \in Versions :
          ord = [IdleOrd EXCEPT !.phase = "input", !.a = a, !.b = b, !.c = c]

CompareChain ==
    /\ ord.phase = "input"
    /\ ord' = [ord EXCEPT
                 !.phase = "compared",
                 !.gt_ab = Version_gt(ord.a, ord.b),
                 !.gt_bc = Version_gt(ord.b, ord.c),
                 !.gt_ac = Version_gt(ord.a, ord.c)]
    /\ UNCHANGED <<checkVars, prs, gen>>

NextTrans == CompareChain

SpecTrans == InitTrans /\ [][NextTrans]_vars

---------------------------------------------------------------------------
(* Claims about the ordering. *)

SameTriple(a, b) ==
    /\ a.major = b.major
    /\ a.functional = b.functional
    /\ a.technical = b.technical

\* the key tuple (major, functional, technical, 0 if final else -1, candidate or 0)
KeyTuple(v) ==
    <<v.major, v.functional, v.technical,
      IF is_candidate(v) THEN -1 ELSE 0,
      IF is_candidate(v) THEN v.candidate ELSE 0>>

\* lexicographic comparison of two key tuples
LexGreater(k, l) ==
    \E i \in 1..Len(k) : k[i] > l[i] /\ \A j \in 1..(i - 1) : k[j] = l[j]

\* C4: for one (major, functional, technical) triple the final release is
\* greater than every candidate, and of two candidates the one with the
\* higher candidate number is the greater.
C4_CandidateOrdering ==
    (ord.phase = "compared" /\ SameTriple(ord.a, ord.b)) =>
        /\ (~is_candidate(ord.a) /\ is_candidate(ord.b)) => ord.gt_ab
        /\ (is_candidate(ord.a) /\ is_candidate(ord.b)) =>
               (ord.gt_ab <=> ord.a.candidate > ord.b.candidate)

\* C5: a > b exactly when the key tuple of a is lexicographically greater
\* than the key tuple of b.
C5_GtIsLexicographic ==
    ord.phase = "compared" =>
        (ord.gt_ab <=> LexGreater(KeyTuple(ord.a), KeyTuple(ord.b)))

\* C6: the ordering is transitive: a > b and b > c imply a > c.
C6_Transitive ==
    (ord.phase = "compared" /\ ord.gt_ab /\ ord.gt_bc) => ord.gt_ac

ExactlyOne(x, y, z) ==
    \/ (x /\ ~y /\ ~z)
    \/ (~x /\ y /\ ~z)
    \/ (~x /\ ~y /\ z)

\* C7: exactly one of a < b, a == b, a > b holds, where a == b holds iff the
\* major, functional and technical numbers and the candidate-presence are
\* identical (and the candidate numbers, when both are candidates).
C7_Trichotomy ==
    ord.phase = "compared" =>
        /\ ExactlyOne(ord.lt_ab, ord.eq_ab, ord.gt_ab)
        /\ ord.eq_ab <=> (ord.a = ord.b)

\* C7 witness: two equal candidates were compared, and two that differ only
\* in the candidate number.
C7_Witness ==
    /\ ord.phase = "compared"
    /\ is_candidate(ord.a) /\ is_candidate(ord.b)
    /\ SameTriple(ord.a, ord.b)
    /\ ord.a.candidate > ord.b.candidate
    /\ ord.gt_ab /\ ~ord.eq_ab /\ ~ord.lt_ab

\* C12: a.bumped_candidate(b) raises (DomainError) exactly when a or b is no
\* candidate; for two candidates it returns, and returns true iff no major,
\* functional or technical bump is detected and a.candidate > b.candidate.
C12_BumpedCandidateContract ==
    ord.phase = "candidates" =>
        /\ (ord.candidate.raised # "none") <=>
               (~is_candidate(ord.a) \/ ~is_candidate(ord.b))
        /\ ord.candidate.raised \in {"none", "ValueError"}
        /\ (is_candidate(ord.a) /\ is_candidate(ord.b)) =>
               (ord.candidate.value <=>
                   /\ ~ord.major /\ ~ord.functional /\ ~ord.technical
                   /\ ord.a.candidate > ord.b.candidate)

\* C20: a.bumped_functional(b) is true iff a.functional > b.functional and
\* a.major is not greater than b.major; a.bumped_technical(b) is true iff
\* a.technical > b.technical and neither a major nor a functional bump of a
\* over b is detected, so it is false whenever bumped_major is true.
C20_BumpDefinitions ==
    ord.phase \in {"compared", "candidates"} =>
        /\ ord.functional <=> /\ ord.a.functional > ord.b.functional
                              /\ ~(ord.a.major > ord.b.major)
        /\ ord.technical <=> /\ ord.a.technical > ord.b.technical
                             /\ ~ord.major
                             /\ ~ord.functional
        /\ ord.major => ~ord.technical

\* C25: the comparison is asymmetric and agrees with its derived operators:
\* a > b implies not b > a, a < b holds exactly when b > a, and a == b
\* implies neither a > b nor b > a.
C25_AsymmetricAndConsistent ==
    ord.phase \in {"compared", "candidates"} =>
        /\ ord.gt_ab => ~ord.gt_ba
        /\ ord.lt_ab <=> ord.gt_ba
        /\ ord.eq_ab => (~ord.gt_ab /\ ~ord.gt_ba)

\* C8: for a > b exactly one of bumped_major, bumped_functional and
\* bumped_technical is true, unless a and b differ only in the candidate,
\* in which case none of the three is true.
C8_BumpExclusivity ==
    (ord.phase = "compared" /\ ord.gt_ab) =>
        IF SameTriple(ord.a, ord.b)
        THEN ~ord.major /\ ~ord.functional /\ ~ord.technical
        ELSE ExactlyOne(ord.major, ord.functional, ord.technical)

---------------------------------------------------------------------------
(* Parsing a text, formatting the parsed version and parsing the result.   *)

\* the digits the number texts are written with
ParseDigits == {"0", "1"}

NumberTexts == UNION {[1..n -> ParseDigits] : n \in 1..MaxDigits}

MajorTexts == {<<"2", "0", "2", "4", "0", "1">>, <<"0", "0", "0", "0", "0", "1">>}

CandidateSuffixes == {<<>>} \cup {<<"-", "r", "c">> \o c : c \in NumberTexts}

\* texts written after the grammar v<major>.<functional>.<technical>[-rc<candidate>]
GrammarTexts ==
    {<<"v">> \o m \o <<".">> \o f \o <<".">> \o t \o c :
        m \in MajorTexts, f \in NumberTexts, t \in NumberTexts,
        c \in CandidateSuffixes}

\* texts that are no versions: a branch name, a five-digit major, a missing
\* technical number, a missing v, an empty candidate number, trailing text
OtherTexts ==
    {<<>>,
     <<"m", "a", "i", "n">>,
     <<"v", "2", "0", "2", "4", "0", ".", "1", ".", "2">>,
     <<"v", "2", "0", "2", "4", "0", "1", ".", "1">>,
     <<"2", "0", "2", "4", "0", "1", ".", "1", ".", "2">>,
     <<"v", "2", "0", "2", "4", "0", "1", ".", "1", ".", "2", "-", "r", "c">>,
     <<"v", "2", "0", "2", "4", "0", "1", ".", "1", ".", "2", "-", "r", "c", "3", "x">>,
     <<"v", "2", "0", "2", "4", "0", "1", ".", "1", ".", "2", ".", "3">>}

ParseTexts == GrammarTexts \cup OtherTexts

InitParse ==
    /\ IdleCheck
    /\ ord = IdleOrd
    /\ gen = IdleGen
    /\ \E text \in ParseTexts, allow \in BOOLEAN :
          prs = [IdlePrs EXCEPT !.phase = "input", !.text = text, !.allow = allow]

\* Version.from_string(text, allow_candidate)
Parse ==
    /\ prs.phase = "input"
    /\ \E r \in {from_string(prs.text, prs.allow)} :
       prs' = [prs EXCEPT !.phase = IF r.ok THEN "parsed" ELSE "raised",
                          !.ok = r.ok, !.version = r.val]
    /\ UNCHANGED <<checkVars, ord, gen>>

\* version.tag_name
Format ==
    /\ prs.phase = "parsed"
    /\ prs' = [prs EXCEPT !.phase = "formatted", !.tag = tag_name(prs.version)]
    /\ UNCHANGED <<checkVars, ord, gen>>

\* Version.from_string(version.tag_name, allow_candidate=True)
Reparse ==
    /\ prs.phase = "formatted"
    /\ \E r \in {from_string(prs.tag, TRUE)} :
       prs' = [prs EXCEPT !.phase = "reparsed", !.ok2 = r.ok, !.version2 = r.val]
    /\ UNCHANGED <<checkVars, ord, gen>>

NextParse == Parse \/ Format \/ Reparse

SpecParse == InitParse /\ [][NextParse]_vars

\* C9: for every text matching the version grammar, leading zeros included,
\* the tag name of the parsed version is the text itself.
C9_FormatOfParse ==
    (prs.phase \in {"formatted", "reparsed"} /\ prs.allow) => prs.tag = prs.text

\* the texts of the grammar that end in -rc<candidate>
CandidateTexts ==
    {<<"v">> \o m \o <<".">> \o f \o <<".">> \o t \o c :
        m \in MajorTexts, f \in NumberTexts, t \in NumberTexts,
        c \in CandidateSuffixes \ {<<>>}}

\* every text of the grammar with the integers written in it
WrittenVersions ==
    {[text |-> <<"v">> \o m \o <<".">> \o f \o <<".">> \o t \o c,
      version |-> [major |-> ToInt(m), functional |-> ToInt(f),
                   technical |-> ToInt(t),
                   candidate |-> IF c = <<>> THEN None
                                 ELSE ToInt(SubSeq(c, 4, Len(c)))]] :
        m \in MajorTexts, f \in NumberTexts, t \in NumberTexts,
        c \in CandidateSuffixes}

\* C11: from_string raises exactly when the text does not match the pattern,
\* or matches with a -rc<candidate> suffix while allow_candidate is false;
\* otherwise it returns the version with the integers written in the text,
\* a candidate iff the suffix is present.
C11_FromStringContract ==
    prs.phase \notin {"idle", "input"} =>
        /\ ~prs.ok <=> \/ prs.text \notin GrammarTexts
                       \/ (prs.text \in CandidateTexts /\ ~prs.allow)
        /\ prs.ok => /\ [text |-> prs.text, version |-> prs.version]
                           \in WrittenVersions
                     /\ is_candidate(prs.version) <=> prs.text \in CandidateTexts

\* C11 witness: a candidate text was refused because candidates were not
\* allowed.
C11_Witness ==
    /\ prs.phase = "raised"
    /\ prs.text \in CandidateTexts
    /\ ~prs.allow /\ ~prs.ok

\* C10: the tag name of every parsed version parses again (candidates
\* allowed) to a version equal to the first.
C10_ParseOfFormat ==
    (prs.phase = "reparsed" /\ prs.allow) =>
        (prs.ok2 /\ Version_eq(prs.version2, prs.version))

---------------------------------------------------------------------------
(* get_last_n_tags, get_last_version_before                                *)

\* the body of the generator get_last_n_tags run to its end over the lines
\* `output` of git, from line i on: the tags yielded, whether
\* Version.from_string raised, and whether the shortfall warning was logged
RECURSIVE TagLoop(_, _, _, _, _)
TagLoop(output, i, n, exclude_candidates, yielded) ==
    IF i > Len(output)
    THEN [yielded |-> yielded, raised |-> FALSE, warned |-> Len(yielded) < n]
    ELSE IF Len(yielded) >= n
    THEN [yielded |-> yielded, raised |-> FALSE, warned |-> FALSE]
    ELSE Bind(from_string(output[i], TRUE), LAMBDA version :
         IF ~version.ok
         THEN [yielded |-> yielded, raised |-> TRUE, warned |-> FALSE]
         ELSE IF exclude_candidates /\ is_candidate(version.val)
         THEN TagLoop(output, i + 1, n, exclude_candidates, yielded)
         ELSE TagLoop(output, i + 1, n, exclude_candidates,
                      Append(yielded, output[i])))

\* get_last_n_tags(n, on_branch=..., exclude_candidates=...), where merged is
\* what `git tag --merged <reference> --sort=-creatordate` prints
get_last_n_tags(n, on_branch, exclude_candidates, merged) ==
    Bind(from_string(on_branch, TRUE).ok, LAMBDA isTag :
    Bind(IF isTag THEN SubSeq(merged, 2, Len(merged)) ELSE merged, LAMBDA output :
        TagLoop(output, 1, n, exclude_candidates, <<>>)))

\* get_last_version_before(version): one(...) raises unless exactly one tag
\* is yielded; an error of the generator passes through it
get_last_version_before(version, merged) ==
    Bind(get_last_n_tags(1, tag_name(version), TRUE, merged), LAMBDA tags :
        IF tags.raised
        THEN [ok |-> FALSE, error |-> "FormatError", val |-> NoVersion]
        ELSE IF Len(tags.yielded) # 1
        THEN [ok |-> FALSE, error |-> "NotFoundError", val |-> NoVersion]
        ELSE Bind(from_string(tags.yielded[1], FALSE), LAMBDA r :
             IF r.ok THEN [ok |-> TRUE, error |-> "none", val |-> r.val]
             ELSE [ok |-> FALSE, error |-> "FormatError", val |-> NoVersion]))

\* ensure_latest_on_main: TRUE when it returns, FALSE when it raises
ensure_latest_on_main(containing) == "remotes/origin/main" \in containing

---------------------------------------------------------------------------
(* compare_work_tree_with_latest_version: one invocation.                  *)
(* The errors are named after the kinds of the specification: the code     *)
(* raises ValueError for FormatError, NotFoundError and PolicyError, and   *)
(* AssertionError for InvariantError.                                      *)

\* the diff oracle reports 0..MaxChanges changes
MaxChanges == 1

DeclaredVersions == {v \in Versions : v.candidate \in {None, MaxCandidate}}

FinalVersions == {v \in Versions : v.candidate = None}

BranchName == <<"m", "a", "i", "n">>

CandidateTag == <<"v", "2", "0", "2", "4", "0", "1", ".", "0", ".", "0", "-", "r", "c", "7">>

DeclaredTexts == {tag_name(v) : v \in DeclaredVersions} \cup {BranchName}

LatestTexts(declared) ==
    {declared, tag_name([major |-> 202401, functional |-> 0, technical |-> 0,
                         candidate |-> None]), CandidateTag, BranchName}

BranchSets == {{"main"}, {"remotes/origin/release"},
               {"main", "remotes/origin/main"}}

\* what git prints for the tags merged into the declared tag, newest first:
\* possibly a tag created after the declared one, the declared tag, possibly
\* a candidate, possibly one more tag (a final version or a malformed one)
Histories(declared) ==
    {newer \o <<declared>> \o rc \o older :
        newer \in {<<>>, <<CandidateTag>>,
                   <<tag_name([major |-> 202402, functional |-> 0,
                               technical |-> 0, candidate |-> None])>>},
        rc \in {<<>>, <<CandidateTag>>},
        older \in {<<>>, <<BranchName>>}
                  \cup {<<tag_name(v)>> : v \in FinalVersions}}

\* the tags of a repository are distinct
Distinct(seq) == \A i, j \in 1..Len(seq) : seq[i] = seq[j] => i = j

\* the history is read only when the gates before it pass: elsewhere one
\* history stands for all
FrontGatesPass(declared, latest, containing) ==
    /\ from_string(declared, TRUE).ok
    /\ from_string(latest, FALSE).ok
    /\ ensure_latest_on_main(containing)

Init ==
    /\ ord = IdleOrd
    /\ prs = IdlePrs
    /\ gen = IdleGen
    /\ exit_status = None
    /\ pc = "start"
    /\ gh_version \in DeclaredTexts
    /\ major_bump_allowed \in BOOLEAN
    /\ latestTag \in LatestTexts(gh_version)
    /\ branches \in BranchSets
    /\ gitTags \in {h \in Histories(gh_version) : Distinct(h)}
    /\ FrontGatesPass(gh_version, latestTag, branches) \/ gitTags = <<gh_version>>
    /\ schemaChanges \in 0..MaxChanges
    /\ cur_version = NoVersion
    /\ latest_version = NoVersion
    /\ is_cur_version_latest = FALSE
    /\ version_behind = NoVersion
    /\ functional_changes = FALSE
    /\ outcome = "none"

environment == <<gitTags, latestTag, branches, schemaChanges>>
arguments == <<gh_version, major_bump_allowed>>

\* cur_version = Version.from_string(gh_version, allow_candidate=True)
ParseDeclared ==
    /\ pc = "start"
    /\ \E r \in {from_string(gh_version, TRUE)} :
       IF r.ok
       THEN pc' = "parsed" /\ cur_version' = r.val /\ UNCHANGED outcome
       ELSE pc' = "raised" /\ outcome' = "FormatError" /\ UNCHANGED cur_version
    /\ UNCHANGED <<arguments, environment, latest_version, is_cur_version_latest,
                   version_behind, functional_changes, ord, prs, gen, exit_status>>

\* get_latest_version parsing the latest tag with candidates allowed
GetLatestVersion_CandidateAllowed ==
    /\ pc = "parsed"
    /\ \E r \in {from_string(latestTag, TRUE)} :
       IF r.ok
       THEN /\ pc' = "latest"
            /\ latest_version' = r.val
            /\ is_cur_version_latest' = Version_eq(cur_version, r.val)
            /\ UNCHANGED outcome
       ELSE /\ pc' = "raised"
            /\ outcome' = "FormatError"
            /\ UNCHANGED <<latest_version, is_cur_version_latest>>
    /\ UNCHANGED <<arguments, environment, cur_version, version_behind,
                   functional_changes, ord, prs, gen, exit_status>>

\* latest_version = get_latest_version(gh_token);
\* is_cur_version_latest = cur_version == latest_version
GetLatestVersion ==
    /\ pc = "parsed"
    /\ \E r \in {from_string(latestTag, FALSE)} :
       IF r.ok
       THEN /\ pc' = "latest"
            /\ latest_version' = r.val
            /\ is_cur_version_latest' = Version_eq(cur_version, r.val)
            /\ UNCHANGED outcome
       ELSE /\ pc' = "raised"
            /\ outcome' = "FormatError"
            /\ UNCHANGED <<latest_version, is_cur_version_latest>>
    /\ UNCHANGED <<arguments, environment, cur_version, version_behind,
                   functional_changes, ord, prs, gen, exit_status>>

\* ensure_latest_on_main raising only in its second branch, the one taken
\* when the declared version is not the latest
EnsureLatestOnMain_LatestExempt ==
    /\ pc = "latest"
    /\ IF ensure_latest_on_main(branches) \/ is_cur_version_latest
       THEN pc' = "on_main" /\ UNCHANGED outcome
       ELSE pc' = "raised" /\ outcome' = "PolicyError"
    /\ UNCHANGED <<arguments, environment, cur_version, latest_version,
                   is_cur_version_latest, version_behind, functional_changes,
                   ord, prs, gen, exit_status>>

\* ensure_latest_on_main(latest_version, is_cur_version_latest)
EnsureLatestOnMain ==
    /\ pc = "latest"
    /\ IF ensure_latest_on_main(branches)
       THEN pc' = "on_main" /\ UNCHANGED outcome
       ELSE pc' = "raised" /\ outcome' = "PolicyError"
    /\ UNCHANGED <<arguments, environment, cur_version, latest_version,
                   is_cur_version_latest, version_behind, functional_changes,
                   ord, prs, gen, exit_status>>

\* get_last_version_before deleting the tag it skips from the repository
GetLastVersionBefore_DeletesTag ==
    /\ pc = "on_main"
    /\ \E r \in {get_last_version_before(cur_version, gitTags)} :
       IF r.ok
       THEN pc' = "behind" /\ version_behind' = r.val /\ UNCHANGED outcome
       ELSE pc' = "raised" /\ outcome' = r.error /\ UNCHANGED version_behind
    /\ gitTags' = SubSeq(gitTags, 2, Len(gitTags))
    /\ UNCHANGED <<arguments, latestTag, branches, schemaChanges, cur_version,
                   latest_version, is_cur_version_latest, functional_changes,
                   ord, prs, gen, exit_status>>

\* version_behind = get_last_version_before(cur_version)
GetLastVersionBefore ==
    /\ pc = "on_main"
    /\ \E r \in {get_last_version_before(cur_version, gitTags)} :
       IF r.ok
       THEN pc' = "behind" /\ version_behind' = r.val /\ UNCHANGED outcome
       ELSE pc' = "raised" /\ outcome' = r.error /\ UNCHANGED version_behind
    /\ UNCHANGED <<arguments, environment, cur_version, latest_version,
                   is_cur_version_latest, functional_changes, ord, prs, gen, exit_status>>

\* assert version_ahead > version_behind
AssertIncreased ==
    /\ pc = "behind"
    /\ IF Version_gt(cur_version, version_behind)
       THEN pc' = "ahead" /\ UNCHANGED outcome
       ELSE pc' = "raised" /\ outcome' = "InvariantError"
    /\ UNCHANGED <<arguments, environment, cur_version, latest_version,
                   is_cur_version_latest, version_behind, functional_changes,
                   ord, prs, gen, exit_status>>

\* the major-bump check without its test of major_bump_allowed
CheckMajorBump_FlagIgnored ==
    /\ pc = "ahead"
    /\ IF bumped_major(cur_version, version_behind)
       THEN pc' = "returned" /\ outcome' = "returned"
       ELSE pc' = "no_major" /\ UNCHANGED outcome
    /\ UNCHANGED <<arguments, environment, cur_version, latest_version,
                   is_cur_version_latest, version_behind, functional_changes,
                   ord, prs, gen, exit_status>>

\* the major-bump check going on to the schema diff after an allowed major
\* bump instead of returning
CheckMajorBump_DiffAnyway ==
    /\ pc = "ahead"
    /\ IF bumped_major(cur_version, version_behind) /\ ~major_bump_allowed
       THEN pc' = "raised" /\ outcome' = "PolicyError"
       ELSE pc' = "no_major" /\ UNCHANGED outcome
    /\ UNCHANGED <<arguments, environment, cur_version, latest_version,
                   is_cur_version_latest, version_behind, functional_changes,
                   ord, prs, gen, exit_status>>

\* if version_ahead.bumped_major(version_behind): ...
CheckMajorBump ==
    /\ pc = "ahead"
    /\ IF bumped_major(cur_version, version_behind)
       THEN IF ~major_bump_allowed
            THEN pc' = "raised" /\ outcome' = "PolicyError"
            ELSE pc' = "returned" /\ outcome' = "returned"
       ELSE pc' = "no_major" /\ UNCHANGED outcome
    /\ UNCHANGED <<arguments, environment, cur_version, latest_version,
                   is_cur_version_latest, version_behind, functional_changes,
                   ord, prs, gen, exit_status>>

\* changes = list(compare_bo4e_versions(...)); functional_changes = len(changes) > 0
CompareSchemas ==
    /\ pc = "no_major"
    /\ pc' = "compared"
    /\ functional_changes' = (schemaChanges > 0)
    /\ UNCHANGED <<arguments, environment, cur_version, latest_version,
                   is_cur_version_latest, version_behind, outcome, ord, prs, gen, exit_status>>

\* the checks of the bump against the changes without the second one
CheckBumpPolicy_SecondCheckMissing ==
    /\ pc = "compared"
    /\ IF ~functional_changes /\ bumped_functional(cur_version, version_behind)
       THEN pc' = "raised" /\ outcome' = "PolicyError"
       ELSE pc' = "returned" /\ outcome' = "returned"
    /\ UNCHANGED <<arguments, environment, cur_version, latest_version,
                   is_cur_version_latest, version_behind, functional_changes,
                   ord, prs, gen, exit_status>>

\* the two checks of the bump against the changes
CheckBumpPolicy ==
    /\ pc = "compared"
    /\ IF ~functional_changes /\ bumped_functional(cur_version, version_behind)
       THEN pc' = "raised" /\ outcome' = "PolicyError"
       ELSE IF functional_changes /\ ~bumped_functional(cur_version, version_behind)
       THEN pc' = "raised" /\ outcome' = "PolicyError"
       ELSE pc' = "returned" /\ outcome' = "returned"
    /\ UNCHANGED <<arguments, environment, cur_version, latest_version,
                   is_cur_version_latest, version_behind, functional_changes,
                   ord, prs, gen, exit_status>>

\* the command catching every error as exit status 0
CliExit_ErrorSwallowed ==
    /\ pc \in {"returned", "raised"}
    /\ pc' = "exited"
    /\ exit_status' = 0
    /\ UNCHANGED <<arguments, environment, cur_version, latest_version,
                   is_cur_version_latest, version_behind, functional_changes,
                   outcome, ord, prs, gen>>

\* the command starting the check again after an error
CliExit_RetryOnError ==
    /\ pc \in {"returned", "raised"}
    /\ IF pc = "raised"
       THEN pc' = "start" /\ outcome' = "none" /\ UNCHANGED exit_status
       ELSE pc' = "exited" /\ exit_status' = 0 /\ UNCHANGED outcome
    /\ UNCHANGED <<arguments, environment, cur_version, latest_version,
                   is_cur_version_latest, version_behind, functional_changes,
                   ord, prs, gen>>

\* compare_work_tree_with_latest_version_cli: `except Exception` catches
\* every error of the check, AssertionError included, and exits with 1; when
\* the check returns the command ends with status 0
CliExit ==
    /\ pc \in {"returned", "raised"}
    /\ pc' = "exited"
    /\ exit_status' = IF pc = "raised" THEN 1 ELSE 0
    /\ UNCHANGED <<arguments, environment, cur_version, latest_version,
                   is_cur_version_latest, version_behind, functional_changes,
                   outcome, ord, prs, gen>>

Next ==
    \/ ParseDeclared
    \/ GetLatestVersion
    \/ EnsureLatestOnMain
    \/ GetLastVersionBefore
    \/ AssertIncreased
    \/ CheckMajorBump
    \/ CompareSchemas
    \/ CheckBumpPolicy
    \/ CliExit

Spec == Init /\ [][Next]_vars

\* the check is one sequential call: a step that can be taken is taken
SpecLive == Spec /\ WF_vars(Next)

---------------------------------------------------------------------------
(* Claims about compare_work_tree_with_latest_version. *)

\* C1: when the steps up to the strict-increase check pass and the declared
\* version is no major bump, the check returns exactly when (there are schema
\* changes) equals bumped_functional(cur_version, version_behind), and fails
\* with PolicyError otherwise.
C1_PolicyFollowsChanges ==
    [][pc = "compared" =>
         /\ (outcome' = "returned") <=>
                ((schemaChanges > 0) = bumped_functional(cur_version, version_behind))
         /\ outcome' \in {"returned", "PolicyError"}]_vars

\* C1 witness: a technical-only bump with schema changes was refused.
C1_Witness ==
    /\ pc = "raised" /\ outcome = "PolicyError"
    /\ functional_changes /\ schemaChanges > 0
    /\ Version_gt(cur_version, version_behind)
    /\ ~bumped_major(cur_version, version_behind)
    /\ ~bumped_functional(cur_version, version_behind)
    /\ bumped_technical(cur_version, version_behind)

\* C2: when the steps up to the strict-increase check pass and the declared
\* version is a major bump, the check returns if major_bump_allowed and fails
\* with PolicyError if not, whatever the schema diff would report.
C2_MajorBumpBypass ==
    [][(pc = "ahead" /\ bumped_major(cur_version, version_behind)) =>
         /\ major_bump_allowed => (pc' = "returned" /\ outcome' = "returned")
         /\ ~major_bump_allowed => (pc' = "raised" /\ outcome' = "PolicyError")]_vars

\* C2 witness: an allowed major bump returned although the diff oracle
\* would have reported changes, and without the diff being taken.
C2_Witness ==
    /\ pc = "returned" /\ outcome = "returned"
    /\ bumped_major(cur_version, version_behind)
    /\ major_bump_allowed
    /\ schemaChanges > 0 /\ ~functional_changes

\* C3: the check gets past the strict-increase assertion, and returns, only
\* if the declared version is greater than version_behind in the
\* lexicographic order on (major, functional, technical, candidate below
\* final); otherwise it fails with InvariantError.
C3_StrictIncreaseIsLexicographic ==
    pc \in {"ahead", "no_major", "compared", "returned"} =>
        LexGreater(KeyTuple(cur_version), KeyTuple(version_behind))

---------------------------------------------------------------------------
(* get_last_n_tags as the generator it is: nothing of its body runs before *)
(* the first next(); every next() runs it to the next yield, to its return *)
(* or to the error it raises.                                              *)

\* at most MaxTake tags are asked for, out of histories of at most MaxTags
MaxTake == 2
MaxTags == 3

ReferenceTag == tag_name([major |-> 202401, functional |-> 1, technical |-> 0,
                          candidate |-> None])

\* the tags a history is made of: two final versions, a candidate, a tag
\* that is no version, and the reference tag
TagPool ==
    {tag_name([major |-> 202401, functional |-> 0, technical |-> 0,
               candidate |-> None]),
     tag_name([major |-> 202402, functional |-> 0, technical |-> 0,
               candidate |-> None]),
     CandidateTag, BranchName, ReferenceTag}

RECURSIVE SeqsUpTo(_, _)
SeqsUpTo(S, len) ==
    IF len = 0 THEN {<<>>}
    ELSE Bind(SeqsUpTo(S, len - 1), LAMBDA shorter :
         shorter \cup {Append(h, t) : h \in shorter, t \in S})

\* what git prints, newest first; the tags merged into a tag include it
MergedTags(on_branch) ==
    {h \in SeqsUpTo(TagPool, MaxTags) :
        /\ Distinct(h)
        /\ on_branch # BranchName => \E k \in 1..Len(h) : h[k] = on_branch}

\* the loop parsing a line before it looks at the counter
RECURSIVE Advance_ParseBeforeCount(_, _, _, _, _)
Advance_ParseBeforeCount(output, i, counter, n, exclude_candidates) ==
    IF i > Len(output)
    THEN [kind |-> "returned", i |-> i, warned |-> counter < n]
    ELSE Bind(from_string(output[i], TRUE), LAMBDA version :
         IF ~version.ok
         THEN [kind |-> "raised", i |-> i, warned |-> FALSE]
         ELSE IF counter >= n
         THEN [kind |-> "returned", i |-> i, warned |-> FALSE]
         ELSE IF exclude_candidates /\ is_candidate(version.val)
         THEN Advance_ParseBeforeCount(output, i + 1, counter, n,
                                       exclude_candidates)
         ELSE [kind |-> "suspended", i |-> i, warned |-> FALSE])

\* the loop of get_last_n_tags from line i of output on, up to the next
\* yield (of line i), the return or the error of Version.from_string
RECURSIVE Advance(_, _, _, _, _)
Advance(output, i, counter, n, exclude_candidates) ==
    IF i > Len(output)
    THEN [kind |-> "returned", i |-> i, warned |-> counter < n]
    ELSE IF counter >= n
    THEN [kind |-> "returned", i |-> i, warned |-> FALSE]
    ELSE Bind(from_string(output[i], TRUE), LAMBDA version :
         IF ~version.ok
         THEN [kind |-> "raised", i |-> i, warned |-> FALSE]
         ELSE IF exclude_candidates /\ is_candidate(version.val)
         THEN Advance(output, i + 1, counter, n, exclude_candidates)
         ELSE [kind |-> "suspended", i |-> i, warned |-> FALSE])

\* the generator after a step r of Advance
Stepped(g, r) ==
    [g EXCEPT !.phase = r.kind, !.i = r.i, !.warned = r.warned,
              !.yielded = IF r.kind = "suspended"
                          THEN Append(g.yielded, g.output[r.i])
                          ELSE g.yielded]

InitTags ==
    /\ IdleCheck
    /\ ord = IdleOrd
    /\ prs = IdlePrs
    /\ \E n \in 0..MaxTake, on_branch \in {BranchName, ReferenceTag, CandidateTag},
          exclude_candidates \in BOOLEAN :
          \E merged \in MergedTags(on_branch) :
             gen = [IdleGen EXCEPT !.phase = "created", !.n = n,
                                   !.on_branch = on_branch,
                                   !.exclude_candidates = exclude_candidates,
                                   !.merged = merged]

\* the first next(): the reference is resolved, git is run, the first line
\* is dropped for a tag reference, and the loop is entered
GenStart ==
    /\ gen.phase = "created"
    /\ \E isTag \in {from_string(gen.on_branch, TRUE).ok} :
       \E output \in {IF isTag THEN SubSeq(gen.merged, 2, Len(gen.merged))
                               ELSE gen.merged} :
       \E r \in {Advance(output, 1, 0, gen.n, gen.exclude_candidates)} :
          gen' = Stepped([gen EXCEPT
                            !.reference = IF isTag THEN "tag" ELSE "branch",
                            !.output = output, !.counter = 0], r)
    /\ UNCHANGED <<checkVars, ord, prs>>

\* a later next(): counter += 1 after the yield, then the loop goes on
GenResume ==
    /\ gen.phase = "suspended"
    /\ \E r \in {Advance(gen.output, gen.i + 1, gen.counter + 1, gen.n,
                         gen.exclude_candidates)} :
          gen' = Stepped([gen EXCEPT !.counter = gen.counter + 1], r)
    /\ UNCHANGED <<checkVars, ord, prs>>

NextTags == GenStart \/ GenResume

SpecTags == InitTags /\ [][NextTags]_vars

\* seq without the tag x
Without(seq, x) == SelectSeq(seq, LAMBDA t : t # x)

\* a tag qualifies unless candidates are excluded and it is a candidate
Qualifies(tag, exclude_candidates) ==
    Bind(from_string(tag, TRUE), LAMBDA version :
        ~(exclude_candidates /\ version.ok /\ is_candidate(version.val)))

QualifyingTags(seq, exclude_candidates) ==
    SelectSeq(seq, LAMBDA t : Qualifies(t, exclude_candidates))

FirstN(seq, n) == SubSeq(seq, 1, IF n < Len(seq) THEN n ELSE Len(seq))

IsPrefix(p, seq) == Len(p) <= Len(seq) /\ p = SubSeq(seq, 1, Len(p))

\* the tags reachable from the reference that may be produced: all of them
\* for a branch, all but the reference tag for a tag
EligibleTags ==
    IF gen.reference = "tag" THEN Without(gen.merged, gen.on_branch)
    ELSE gen.merged

\* C14: when on_branch parses as a Version, the reference tag never appears
\* among the tags produced by get_last_n_tags, whatever the creation order
\* of the tags reachable from it, and no other tag is dropped on its account:
\* the lines the loop reads are the merged tags without the reference tag.
C14_ReferenceTagExcluded ==
    (gen.phase \in {"suspended", "returned", "raised"} /\ gen.reference = "tag") =>
        /\ \A k \in 1..Len(gen.yielded) : gen.yielded[k] # gen.on_branch
        /\ gen.output = Without(gen.merged, gen.on_branch)

\* C15: the tags produced by get_last_n_tags are the first min(n, k) of the
\* k qualifying tags, newest first: never more than n, always a prefix of the
\* qualifying tags, all min(n, k) of them once the generator has returned;
\* for a branch reference the qualifying tags start at the newest tag.
C15_FirstNQualifying ==
    gen.phase \in {"suspended", "returned", "raised"} =>
        /\ Len(gen.yielded) <= gen.n
        /\ IsPrefix(gen.yielded,
                    QualifyingTags(EligibleTags, gen.exclude_candidates))
        /\ gen.phase = "returned" =>
              gen.yielded = FirstN(QualifyingTags(EligibleTags,
                                                  gen.exclude_candidates), gen.n)

\* every tag of the history is the name of a version
AllVersionTags(seq) == \A k \in 1..Len(seq) : from_string(seq[k], TRUE).ok

\* the non-candidate tags reachable from the tag of version, other than that
\* tag itself, newest first
PredecessorTags(version, merged) ==
    QualifyingTags(Without(merged, tag_name(version)), TRUE)

\* C13: get_last_version_before(v) returns the most recently created
\* non-candidate tag reachable from v's tag other than v's own tag, parsed as
\* a Version and never a candidate, and fails with NotFoundError when there
\* is no such tag (histories whose tags all name versions).
C13_LastVersionBefore ==
    [][(pc = "on_main" /\ AllVersionTags(gitTags)) =>
         IF PredecessorTags(cur_version, gitTags) = <<>>
         THEN pc' = "raised" /\ outcome' = "NotFoundError"
         ELSE /\ pc' = "behind"
              /\ ~is_candidate(version_behind')
              /\ tag_name(version_behind')
                     = PredecessorTags(cur_version, gitTags)[1]]_vars

\* C16: ensure_latest_on_main raises PolicyError exactly when
\* remotes/origin/main is not among the branches containing the commit of
\* the latest tag, whatever is_cur_version_latest is; when it does not raise
\* it hands nothing back: no variable of the check but its position changes.
C16_OnMainGate ==
    [][pc = "latest" =>
         IF "remotes/origin/main" \in branches
         THEN /\ pc' = "on_main"
              /\ UNCHANGED <<outcome, cur_version, latest_version,
                             is_cur_version_latest, version_behind>>
         ELSE pc' = "raised" /\ outcome' = "PolicyError"]_vars

\* C16 witness: the declared version is the latest one, its commit is on no
\* branch named remotes/origin/main, and the check raised PolicyError.
C16_Witness ==
    /\ pc = "raised" /\ outcome = "PolicyError"
    /\ is_cur_version_latest
    /\ "remotes/origin/main" \notin branches

\* tags that name a candidate, and a tag that names no version
NonFinalTags ==
    {tag_name(v) : v \in Versions \ FinalVersions} \cup {CandidateTag, BranchName}

\* C17: get_latest_version fails with FormatError whenever the tag of the
\* latest release is a candidate or no version at all; hence a declared
\* candidate is never found to be the latest version.
C17_LatestIsFinal ==
    /\ [][(pc = "parsed" /\ latestTag \in NonFinalTags) =>
            (pc' = "raised" /\ outcome' = "FormatError")]_vars
    /\ [](is_candidate(cur_version) => ~is_cur_version_latest)

\* C17 witness: the declared version is a candidate, the latest release
\* carries the same tag, and get_latest_version raised FormatError.
C17_Witness ==
    /\ pc = "raised" /\ outcome = "FormatError"
    /\ is_candidate(cur_version)
    /\ latestTag = gh_version

\* C18: the command ends with exit status 1 exactly when the check raised an
\* error (FormatError, NotFoundError, PolicyError or InvariantError), and
\* with status 0 exactly when the check returned.
C18_ExitStatus ==
    pc = "exited" =>
        /\ outcome \in {"returned", "FormatError", "NotFoundError",
                        "PolicyError", "InvariantError"}
        /\ exit_status = 1 <=> outcome # "returned"
        /\ exit_status = 0 <=> outcome = "returned"

\* C18 witness: the assertion failed and the command ended with status 1.
C18_Witness ==
    pc = "exited" /\ outcome = "InvariantError" /\ exit_status = 1

\* C19: no step of the check, passing or failing, changes the tags, the
\* branches or the release marked latest.
C19_ReadOnly ==
    [][/\ gitTags' = gitTags
       /\ branches' = branches
       /\ latestTag' = latestTag]_vars

\* C19 witness: the check ran through all its gates, having read the latest
\* release, the branches and the tags, and the command ended.
C19_Witness ==
    /\ pc = "exited" /\ outcome = "returned"
    /\ version_behind # NoVersion
    /\ functional_changes
    /\ Len(gitTags) > 1

\* the lines of seq that do not parse as a Version
BadLines(seq) == {k \in 1..Len(seq) : ~from_string(seq[k], TRUE).ok}

\* the generator has ended, by its return or by an error
GenEnded == gen.phase \in {"returned", "raised"}

\* C22 as stated: get_last_n_tags fails with FormatError whenever a tag
\* reachable from the reference, other than the reference tag, does not parse
\* as a Version, wherever it sits in the creation order and however many tags
\* are taken.
C22_AnyBadTagRaises ==
    (GenEnded /\ BadLines(EligibleTags) # {}) => gen.phase = "raised"

\* C22 amended: get_last_n_tags fails with FormatError exactly when a line
\* that does not parse is read by the loop, that is when fewer than n tags
\* were yielded from the lines before it; a line behind the n-th yielded tag,
\* and any line when n = 0, is never parsed.
C22_BadTagRaisesWhenReached ==
    GenEnded =>
        (gen.phase = "raised" <=>
            \E k \in BadLines(gen.output) :
                Len(QualifyingTags(SubSeq(gen.output, 1, k - 1),
                                   gen.exclude_candidates)) < gen.n)

\* C22 witness: the generator returned after its n-th tag with a line that
\* is no version left unread behind it.
C22_Witness ==
    /\ gen.phase = "returned"
    /\ gen.n > 0 /\ Len(gen.yielded) = gen.n
    /\ BadLines(gen.output) # {}

\* C23: when the generator is consumed to its end, the shortfall warning is
\* logged exactly when fewer than n tags were yielded, it is a warning and no
\* error, and with exactly n qualifying tags in the history none is logged.
C23_ShortfallWarning ==
    gen.phase = "returned" =>
        /\ gen.warned <=> Len(gen.yielded) < gen.n
        /\ Len(QualifyingTags(EligibleTags, gen.exclude_candidates)) = gen.n
              => ~gen.warned

\* a step ends at position p, or fails with one of the errors
PassOrFail(p, errors) ==
    pc' = p \/ (pc' = "raised" /\ outcome' \in errors)

\* C21: the gates are taken in the order parse declared version, fetch latest
\* release, ensure latest on main, locate predecessor, strict-increase check,
\* major-bump check, schema diff, policy check, each one going on to the next
\* or failing with its own error; the schema diff is taken only after all
\* earlier gates passed and without a major bump, and the predecessor is
\* looked up only after ensure_latest_on_main passed.
C21_GateOrder ==
    [][/\ pc = "start" => PassOrFail("parsed", {"FormatError"})
       /\ pc = "parsed" => PassOrFail("latest", {"FormatError"})
       /\ pc = "latest" => PassOrFail("on_main", {"PolicyError"})
       /\ pc = "on_main" => PassOrFail("behind", {"NotFoundError", "FormatError"})
       /\ pc = "behind" => PassOrFail("ahead", {"InvariantError"})
       /\ pc = "ahead" => (pc' = "returned" \/ PassOrFail("no_major", {"PolicyError"}))
       /\ pc = "no_major" => pc' = "compared"
       /\ pc = "compared" => PassOrFail("returned", {"PolicyError"})
       /\ (pc' = "compared" \/ functional_changes' # functional_changes) =>
             /\ pc = "no_major"
             /\ from_string(gh_version, TRUE).ok
             /\ from_string(latestTag, FALSE).ok
             /\ "remotes/origin/main" \in branches
             /\ Version_gt(cur_version, version_behind)
             /\ ~bumped_major(cur_version, version_behind)
       /\ (pc' = "behind" \/ version_behind' # version_behind) =>
             /\ pc = "on_main"
             /\ "remotes/origin/main" \in branches]_vars

\* C21 witness: the schema diff was taken, after all earlier gates, for a
\* declared version that is no major bump, and reported no change.
C21_Witness ==
    /\ pc = "compared"
    /\ ~functional_changes
    /\ ~bumped_major(cur_version, version_behind)
    /\ "remotes/origin/main" \in branches

\* how far the check has come
Rank(p) ==
    CASE p = "start" -> 0
      [] p = "parsed" -> 1
      [] p = "latest" -> 2
      [] p = "on_main" -> 3
      [] p = "behind" -> 4
      [] p = "ahead" -> 5
      [] p = "no_major" -> 6
      [] p = "compared" -> 7
      [] p \in {"returned", "raised"} -> 8
      [] p = "exited" -> 9

\* C24: every invocation ends, with exactly one outcome: the check only moves
\* forward through its gates (none is taken twice), an outcome once reached
\* is never replaced, after a failure the only step left is the end of the
\* command, and the end is always reached.
C24_Terminates ==
    /\ <>(pc = "exited")
    /\ [](pc = "exited" => outcome \in {"returned", "FormatError", "NotFoundError",
                                        "PolicyError", "InvariantError"})
    /\ [][/\ Rank(pc') > Rank(pc)
          /\ outcome # "none" => outcome' = outcome
          /\ pc = "raised" => pc' = "exited"]_vars

\* C24 witness: the check failed at the predecessor lookup, before any later
\* gate, and the command ended.
C24_Witness ==
    /\ pc = "exited" /\ outcome = "NotFoundError"
    /\ version_behind = NoVersion
    /\ exit_status = 1

===========================================================================
